---- MODULE Spec2Model ----
(***************************************************************************)
(* Model of dealer_dashboard.py: a Streamlit script that is re-run from    *)
(* top to bottom after every widget change.  The state is the loaded data  *)
(* frame, the value of each sidebar widget, and everything the last run of *)
(* the script computed and displayed.                                      *)
(*                                                                         *)
(* Strings are sequences of one-character strings, dates are day numbers,  *)
(* a data frame is a sequence of rows (records), a pandas missing value is *)
(* the token NaN.                                                          *)
(***************************************************************************)
EXTENDS Integers, Sequences, FiniteSets, TLC

VARIABLES
    df,                    \* the loaded frame, with Location_clean (l.30-42)
    argsort_ties,          \* how the build's unstable argsort orders ties
    date_mode,             \* st.sidebar.radio (l.73)
    date_range,            \* st.sidebar.date_input (l.81)
    select_all_states,     \* checkbox (l.113)
    ms_states,             \* multiselect "Select State(s)" (l.118)
    location_search,       \* text_input (l.125)
    select_all_locations,  \* checkbox (l.135)
    ms_locations,          \* multiselect "Select Location(s)" (l.142)
    out                    \* every name the last run bound, and what it showed

vars == <<df, argsort_ties, date_mode, date_range, select_all_states, ms_states,
          location_search, select_all_locations, ms_locations, out>>

-----------------------------------------------------------------------------
(* Bounds of the model                                                     *)

MaxRows == 2        \* rows of a frame in the filter specification
MaxGroups == 27     \* distinct dealers/locations in the ranking specification

-----------------------------------------------------------------------------
(* Characters and strings                                                  *)

Lowers == <<"a","b","c","d","e","f","g","h","i","j","k","l","m",
            "n","o","p","q","r","s","t","u","v","w","x","y","z">>
Uppers == <<"A","B","C","D","E","F","G","H","I","J","K","L","M",
            "N","O","P","Q","R","S","T","U","V","W","X","Y","Z">>

Range(s) == {s[i] : i \in DOMAIN s}

\* a sequence or table given by a rule, evaluated once
AsTuple(s) == <<>> \o s
AsTable(f) == f @@ <<>>

LowerSet == Range(Lowers)
UpperSet == Range(Uppers)
Chars == LowerSet \cup UpperSet \cup {" ", "\t"}

IsLower(c) == c \in LowerSet
IsUpper(c) == c \in UpperSet
IsAlpha(c) == IsLower(c) \/ IsUpper(c)
IsSpace(c) == c \in {" ", "\t"}

IndexIn(c, tab) == CHOOSE i \in DOMAIN tab : tab[i] = c

\* the code point of a character: str comparison and sorted() use it
OrdTable ==
    [c \in Chars |->
        IF IsLower(c) THEN 96 + IndexIn(c, Lowers)
        ELSE IF IsUpper(c) THEN 64 + IndexIn(c, Uppers)
        ELSE IF c = " " THEN 32 ELSE 9]
Ord(c) == OrdTable[c]

LowerTable == [c \in Chars |-> IF IsUpper(c) THEN Lowers[IndexIn(c, Uppers)] ELSE c]
UpperTable == [c \in Chars |-> IF IsLower(c) THEN Uppers[IndexIn(c, Lowers)] ELSE c]
LowerChar(c) == LowerTable[c]
UpperChar(c) == UpperTable[c]

\* str.lower()
Lower(s) == AsTuple([i \in DOMAIN s |-> LowerChar(s[i])])

\* Python's  a < b  on str
RECURSIVE StrLess(_, _)
StrLess(a, b) ==
    IF b = <<>> THEN FALSE
    ELSE IF a = <<>> THEN TRUE
    ELSE IF a[1] = b[1] THEN StrLess(Tail(a), Tail(b))
    ELSE Ord(a[1]) < Ord(b[1])

\* Python's  sub in s  on str
Contains(sub, s) ==
    \E k \in 0..(Len(s) - Len(sub)) :
        \A i \in 1..Len(sub) : s[k + i] = sub[i]

\* the missing value of a column of strings (NaN / None)
NaN == <<"NaN">>
IsNa(v) == v = NaN

\* Series.astype(str): pandas before 3.0 turns a missing value into the text
\* "nan", pandas 3.0 and later keep it missing
AsTypeStr(v, keeps_na) == IF IsNa(v) /\ ~keeps_na THEN <<"n", "a", "n">> ELSE v

\* Series.str.strip()
RECURSIVE LStrip(_)
LStrip(s) == IF s # <<>> /\ IsSpace(s[1]) THEN LStrip(Tail(s)) ELSE s
RECURSIVE RStrip(_)
RStrip(s) ==
    IF s # <<>> /\ IsSpace(s[Len(s)]) THEN RStrip(SubSeq(s, 1, Len(s) - 1)) ELSE s
Strip(s) == LStrip(RStrip(s))

\* Series.str.replace(r"\s+", " ", regex=True)
RECURSIVE CollapseSpaces(_)
CollapseSpaces(s) ==
    IF s = <<>> THEN <<>>
    ELSE IF IsSpace(s[1])
         THEN <<" ">> \o CollapseSpaces(LStrip(s))
         ELSE <<s[1]>> \o CollapseSpaces(Tail(s))

\* Series.str.title(): a letter after a non-letter is upper-cased, any other
\* letter lower-cased
Title(s) ==
    AsTuple([i \in DOMAIN s |->
        IF i = 1 \/ ~IsAlpha(s[i - 1]) THEN UpperChar(s[i]) ELSE LowerChar(s[i])])

\* the Location_clean column of one row; the .str methods leave a missing
\* value missing
LocationClean(raw, keeps_na) ==
    LET text == AsTypeStr(raw, keeps_na)
    IN  IF IsNa(text) THEN NaN ELSE Title(CollapseSpaces(Strip(text)))

-----------------------------------------------------------------------------
(* pandas frames: a frame is a sequence of rows, a grouped count is a      *)
(* sequence of [key, Leads] rows                                           *)

MinOf(S) == CHOOSE x \in S : \A y \in S : x <= y
MaxOf(S) == CHOOSE x \in S : \A y \in S : y <= x

\* Series.dropna().unique() of a column of strings, as a set
UniqueNotNa(frame, col) == {v \in {frame[i][col] : i \in DOMAIN frame} : ~IsNa(v)}

\* Series.unique() of a column of dates, as a set
UniqueDates(frame, col) == {frame[i][col] : i \in DOMAIN frame}

\* sorted(S) of a set of strings
SortedStrings(S) ==
    LET below == AsTable([v \in S |-> Cardinality({u \in S : StrLess(u, v)})])
    IN  AsTuple([p \in 1..Cardinality(S) |-> CHOOSE v \in S : below[v] = p - 1])

\* a set of dates or row numbers in ascending order
SortedInts(S) ==
    LET below == AsTable([v \in S |-> Cardinality({u \in S : u < v})])
    IN  AsTuple([p \in 1..Cardinality(S) |-> CHOOSE v \in S : below[v] = p - 1])

\* frame.groupby(col).size().reset_index(name="Leads"): one row per key that
\* is not missing, in ascending order of the key
GroupBySize(frame, col, keys) ==
    AsTuple([p \in DOMAIN keys |->
        [key |-> keys[p],
         Leads |-> Cardinality({i \in DOMAIN frame : frame[i][col] = keys[p]})]])

\* the order the argsort of sort_values gives two rows of equal Leads: the
\* default kind is quicksort, which promises no stability
TieBefore(ties, i, j) == IF ties = "stable" THEN i < j ELSE i > j

\* the sort with ascending=False left out
SortValuesDesc_Ascending(counts, ties) ==
    LET Before(i, j) ==
            \/ counts[i].Leads < counts[j].Leads
            \/ counts[i].Leads = counts[j].Leads /\ TieBefore(ties, i, j)
        ahead == AsTuple([i \in DOMAIN counts |->
                     Cardinality({j \in DOMAIN counts : Before(j, i)})])
    IN  AsTuple([p \in DOMAIN counts |->
                    counts[CHOOSE i \in DOMAIN counts : ahead[i] = p - 1]])

\* counts.sort_values("Leads", ascending=False)
SortValuesDesc(counts, ties) ==
    LET Before(i, j) ==
            \/ counts[i].Leads > counts[j].Leads
            \/ counts[i].Leads = counts[j].Leads /\ TieBefore(ties, i, j)
        ahead == AsTuple([i \in DOMAIN counts |->
                     Cardinality({j \in DOMAIN counts : Before(j, i)})])
    IN  AsTuple([p \in DOMAIN counts |->
                    counts[CHOOSE i \in DOMAIN counts : ahead[i] = p - 1]])

\* counts.head(n)
HeadRows(counts, n) == SubSeq(counts, 1, IF n < Len(counts) THEN n ELSE Len(counts))

-----------------------------------------------------------------------------
(* The script, section by section                                          *)

CHART_TOP_DEALERS == 15
CHART_TOP_LOCATIONS == 25

\* a value of the date widget or of start_date/end_date: a bare date
\* (kind "date", one element) or a tuple of dates (kind "tuple")
DateVal(d) == [kind |-> "date", elems |-> <<d>>]
TupleVal(t) == [kind |-> "tuple", elems |-> t]

\* l.70-71
MinDate(frame) == MinOf(UniqueDates(frame, "Lead_Date"))
MaxDate(frame) == MaxOf(UniqueDates(frame, "Lead_Date"))

\* l.83: value=(min_date, max_date)
DefaultDateRange(frame) == TupleVal(<<MinDate(frame), MaxDate(frame)>>)

\* l.87-91
CustomRange(range) ==
    IF range.kind = "tuple" /\ Len(range.elems) = 2
    THEN [start_date |-> DateVal(range.elems[1]), end_date |-> DateVal(range.elems[2])]
    ELSE [start_date |-> range, end_date |-> range]

\* l.94-99
PresetDays(mode) ==
    IF mode = "Last 7 days" THEN 7
    ELSE IF mode = "Last 30 days" THEN 30
    ELSE 90

\* the window counted back a whole n days, not n - 1
PresetRange_WholeDays(days, min_date, max_date) ==
    LET start == max_date - days
    IN  [start_date |-> DateVal(IF start < min_date THEN min_date ELSE start),
         end_date |-> DateVal(max_date)]

\* l.102-106
PresetRange(days, min_date, max_date) ==
    LET start == max_date - (days - 1)
    IN  [start_date |-> DateVal(IF start < min_date THEN min_date ELSE start),
         end_date |-> DateVal(max_date)]

\* l.79-106
ResolveDates(mode, range, min_date, max_date) ==
    IF mode = "Custom range"
    THEN CustomRange(range)
    ELSE PresetRange(PresetDays(mode), min_date, max_date)

\* l.112; the STATE column is the field State of a row
States(frame) == SortedStrings(UniqueNotNa(frame, "State"))

\* l.115-118; the list is used for membership and emptiness only: a set
SelectedStates(select_all, states, picked) ==
    IF select_all THEN Range(states) ELSE picked

\* l.123
AllLocationsFull(frame) == SortedStrings(UniqueNotNa(frame, "Location_clean"))

\* the search without .lower() on either side
LocationOptions_CaseSensitive(all_locations, search) ==
    IF search # <<>>
    THEN SelectSeq(all_locations, LAMBDA loc : Contains(search, loc))
    ELSE all_locations

\* l.127-133
LocationOptions(all_locations, search) ==
    IF search # <<>>
    THEN SelectSeq(all_locations, LAMBDA loc : Contains(Lower(search), Lower(loc)))
    ELSE all_locations

\* l.139-146
SelectedLocations(select_all, options, picked) ==
    IF select_all THEN Range(options) ELSE picked

\* l.151-152: pd.to_datetime of a date is a Timestamp, of a tuple a
\* DatetimeIndex
ToDatetime(v) ==
    [kind |-> IF v.kind = "tuple" THEN "index" ELSE "ts", elems |-> v.elems]

\* Series >= x and Series <= x raise ValueError("Lengths must match") when x
\* is an index of another length than the Series
CompareRaises(frame, ts) == ts.kind = "index" /\ Len(ts.elems) # Len(frame)

\* the operand row i of the Series is compared with
Operand(ts, i) == IF ts.kind = "index" THEN ts.elems[i] ELSE ts.elems[1]

\* l.154-157, the rows kept when no comparison raises
DateFilteredRows(frame, start_ts, end_ts) ==
    LET keep == {i \in DOMAIN frame :
                    /\ frame[i].Lead_Date >= Operand(start_ts, i)
                    /\ frame[i].Lead_Date <= Operand(end_ts, i)}
        at == SortedInts(keep)
    IN  AsTuple([p \in DOMAIN at |-> frame[at[p]]])

DateFiltered(frame, start_date, end_date) ==
    LET start_ts == ToDatetime(start_date)
        end_ts == ToDatetime(end_date)
        rows == DateFilteredRows(frame, start_ts, end_ts)
    IN  IF CompareRaises(frame, start_ts) \/ CompareRaises(frame, end_ts)
        THEN [error |-> TRUE, rows |-> <<>>]
        ELSE [error |-> FALSE, rows |-> rows]

\* the span without the + 1
DateSpanDays_Exclusive(frame) == MaxDate(frame) - MinDate(frame)

\* l.166-168
DateSpanDays(frame) == (MaxDate(frame) - MinDate(frame)) + 1

\* l.164-174; the quotient is kept as numerator and denominator
Kpis(date_filtered) ==
    IF date_filtered # <<>>
    THEN LET span == DateSpanDays(date_filtered)
         IN  [total_leads |-> Len(date_filtered),
              avg_leads_per_day |->
                  IF span > 0 THEN [num |-> Len(date_filtered), den |-> span]
                  ELSE [num |-> 0, den |-> 1],
              num_dealers |-> Cardinality(UniqueNotNa(date_filtered, "Dealer"))]
    ELSE [total_leads |-> 0,
          avg_leads_per_day |-> [num |-> 0, den |-> 1],
          num_dealers |-> 0]

\* counts.sort_values("Week_Start"): ascending, the keys are distinct
SortValuesByKey(counts) ==
    LET ahead == AsTuple([i \in DOMAIN counts |->
                     Cardinality({j \in DOMAIN counts : counts[j].key < counts[i].key})])
    IN  AsTuple([p \in DOMAIN counts |->
                    counts[CHOOSE i \in DOMAIN counts : ahead[i] = p - 1]])

\* the series grouped by day, not by week
WeeklyCounts_ByDay(date_filtered) ==
    SortValuesByKey(
        GroupBySize(date_filtered, "Lead_Date",
                    SortedInts(UniqueDates(date_filtered, "Lead_Date"))))

\* l.194-200
WeeklyCounts(date_filtered) ==
    SortValuesByKey(
        GroupBySize(date_filtered, "Week_Start",
                    SortedInts(UniqueDates(date_filtered, "Week_Start"))))

\* l.215-221, l.250-256, l.287-293
RankCounts(frame, col, ties) ==
    SortValuesDesc(
        GroupBySize(frame, col, SortedStrings(UniqueNotNa(frame, col))), ties)

\* an empty selection taken as no filter
LocDf_EmptyShowsAll(date_filtered, selected_locations) ==
    IF selected_locations # {}
    THEN SelectSeq(date_filtered, LAMBDA r : r.Location_clean \in selected_locations)
    ELSE date_filtered

\* l.241-247
LocDf(date_filtered, selected_locations) ==
    IF selected_locations # {}
    THEN SelectSeq(date_filtered, LAMBDA r : r.Location_clean \in selected_locations)
    ELSE <<>>

\* the state filter written like the location filter: isin() in every mode
StateDf_AlwaysFilters(date_filtered, select_all, selected_states) ==
    IF selected_states # {}
    THEN SelectSeq(date_filtered, LAMBDA r : r.State \in selected_states)
    ELSE <<>>

\* l.277-284
StateDf(date_filtered, select_all, selected_states) ==
    IF ~select_all
    THEN IF selected_states # {}
         THEN SelectSeq(date_filtered, LAMBDA r : r.State \in selected_states)
         ELSE <<>>
    ELSE date_filtered

\* what a run that stopped at l.154 leaves unset
NotRun ==
    [date_filtered |-> <<>>, total_leads |-> 0,
     avg_leads_per_day |-> [num |-> 0, den |-> 1], num_dealers |-> 0,
     weekly_counts |-> <<>>, dealer_chart |-> <<>>,
     loc_df |-> <<>>, location_chart |-> <<>>,
     state_df |-> <<>>, state_chart |-> <<>>,
     charts |-> {}, infos |-> {}]

\* l.194-306: the four charts, given the frame each one is drawn from
Charts(date_filtered, loc_df, state_df, ties) ==
    [weekly_counts |-> WeeklyCounts(date_filtered),
     dealer_chart |->
         HeadRows(RankCounts(date_filtered, "Dealer", ties), CHART_TOP_DEALERS),
     loc_df |-> loc_df,
     location_chart |->
         IF loc_df # <<>>
         THEN HeadRows(RankCounts(loc_df, "Location_clean", ties), CHART_TOP_LOCATIONS)
         ELSE <<>>,
     state_df |-> state_df,
     state_chart |->
         IF state_df # <<>> THEN RankCounts(state_df, "State", ties) ELSE <<>>,
     charts |-> {"week", "dealer"}
                \cup (IF loc_df # <<>> THEN {"location"} ELSE {})
                \cup (IF state_df # <<>> THEN {"state"} ELSE {}),
     infos |-> (IF loc_df # <<>> THEN {} ELSE {"no locations"})
               \cup (IF state_df # <<>> THEN {} ELSE {"no states"})]

\* l.308: nothing but the message of the date range
NoData ==
    [weekly_counts |-> <<>>, dealer_chart |-> <<>>,
     loc_df |-> <<>>, location_chart |-> <<>>,
     state_df |-> <<>>, state_chart |-> <<>>,
     charts |-> {}, infos |-> {"no date range"}]

\* the state filter applied to every chart
MainContent_StateFilterGlobal(date_filtered, ties, select_all, selected_states, selected_locations) ==
    LET kept == StateDf(date_filtered, select_all, selected_states)
    IN  IF kept # <<>>
        THEN Charts(kept, LocDf(kept, selected_locations), kept, ties)
        ELSE NoData

\* l.192-308: the main content
MainContent(date_filtered, ties, select_all, selected_states, selected_locations) ==
    IF date_filtered # <<>>
    THEN Charts(date_filtered,
                LocDf(date_filtered, selected_locations),
                StateDf(date_filtered, select_all, selected_states),
                ties)
    ELSE NoData

\* one run of the script, l.67-308
Script(frame, ties, mode, range, all_states, picked_states, search, all_locs, picked_locs) ==
    LET min_date == MinDate(frame)
        max_date == MaxDate(frame)
        resolved == ResolveDates(mode, range, min_date, max_date)
        states == States(frame)
        selected_states == SelectedStates(all_states, states, picked_states)
        location_options == LocationOptions(AllLocationsFull(frame), search)
        selected_locations == SelectedLocations(all_locs, location_options, picked_locs)
        filtered == DateFiltered(frame, resolved.start_date, resolved.end_date)
        sidebar == [min_date |-> min_date, max_date |-> max_date,
                    start_date |-> resolved.start_date,
                    end_date |-> resolved.end_date,
                    states |-> states, selected_states |-> selected_states,
                    location_options |-> location_options,
                    selected_locations |-> selected_locations,
                    error |-> filtered.error]
    IN  IF filtered.error
        THEN sidebar @@ NotRun
        ELSE sidebar
             @@ [date_filtered |-> filtered.rows]
             @@ Kpis(filtered.rows)
             @@ MainContent(filtered.rows, ties, all_states, selected_states,
                            selected_locations)

-----------------------------------------------------------------------------
(* The data                                                                *)

\* the Week_Start column of the cleaned CSV: the first day of the week of
\* Lead_Date, weeks starting on day 1
WeekStart(d) == d - ((d - 1) % 7)

CsvRow(d, dealer, state, location) ==
    [Lead_Date |-> d, Week_Start |-> WeekStart(d), Dealer |-> dealer,
     State |-> state, Location |-> location]

\* l.22-42: the frame after load_data and the Location_clean step
LoadedRow(r, has_location, keeps_na) ==
    [Lead_Date |-> r.Lead_Date, Week_Start |-> r.Week_Start, Dealer |-> r.Dealer,
     State |-> r.State,
     Location_clean |->
         IF has_location THEN LocationClean(r.Location, keeps_na) ELSE <<>>]

LoadData(csv, has_location, keeps_na) ==
    AsTuple([i \in DOMAIN csv |-> LoadedRow(csv[i], has_location, keeps_na)])

NSW == <<"N", "S", "W">>
VIC == <<"V", "I", "C">>

\* rows a CSV of the filter specification is made of
CsvPool ==
    { CsvRow(1, <<"y">>, VIC, <<" ", "a", "\t", " ", "B", " ">>),
      CsvRow(16, <<"x">>, NSW, <<"a", "b">>),
      CsvRow(16, NaN, NaN, NaN),
      CsvRow(3, <<"x">>, NSW, <<"A", "B">>) }

Csvs == UNION {[1..n -> CsvPool] : n \in 1..MaxRows}

\* a CSV without a Location column gives the same Location_clean in every
\* row: its one-row frames stand for it
Frames ==
    {LoadData(csv, TRUE, keeps_na) : csv \in Csvs, keeps_na \in BOOLEAN}
    \cup {LoadData(csv, FALSE, FALSE) : csv \in [1..1 -> CsvPool]}

ArgsortTies == {"stable", "reversed"}

DateModes == {"Custom range", "Last 7 days", "Last 30 days", "Last 90 days"}

\* what the date widget can hand back: a pair, or a lone date while the
\* user has picked only the start of the range
DateChoices == {1, 16}
DateInputs ==
    {DateVal(d) : d \in DateChoices}
    \cup {TupleVal(<<d>>) : d \in DateChoices}
    \cup {TupleVal(<<s, e>>) : s \in DateChoices, e \in DateChoices}

SearchTexts == {<<>>, <<"B">>}

\* the ranking specification's data: group g has 1 + (g mod 3) rows, groups in
\* ascending or descending order of their name
GroupName(g) ==
    IF g <= 26 THEN <<Lowers[g]>>
    ELSE <<Lowers[(g - 1) \div 26], Lowers[((g - 1) % 26) + 1]>>

GroupRow(g) ==
    CsvRow(IF g % 5 = 0 THEN 1 ELSE 16, GroupName(g),
           IF g % 2 = 0 THEN NSW ELSE VIC, GroupName(g))

RECURSIVE GroupRows(_, _, _)
GroupRows(n, order, p) ==
    IF p > n THEN <<>>
    ELSE LET g == IF order = "ascending" THEN p ELSE n + 1 - p
         IN  [k \in 1..(1 + (g % 3)) |-> GroupRow(g)] \o GroupRows(n, order, p + 1)

RankFrames ==
    {LoadData(GroupRows(n, order, 1), TRUE, FALSE) :
        n \in 1..MaxGroups, order \in {"ascending", "descending"}}

\* the date specification's data: frames that differ in their dates only
DateSpread == {1, 7, 8, 30, 31, 90, 91}

DateCsvs ==
    UNION {[1..n -> {CsvRow(d, <<"x">>, NSW, <<"a">>) : d \in DateSpread}] :
              n \in 1..MaxRows}

DateFrames == {LoadData(csv, TRUE, FALSE) : csv \in DateCsvs}

-----------------------------------------------------------------------------
(* The session: the first run, then one run per widget change              *)

Rerun ==
    out' = Script(df', argsort_ties', date_mode', date_range', select_all_states',
                  ms_states', location_search', select_all_locations', ms_locations')

InitOn(frames) ==
    /\ df \in frames
    /\ argsort_ties \in ArgsortTies
    /\ date_mode = "Custom range"
    /\ date_range = DefaultDateRange(df)
    /\ select_all_states = TRUE
    /\ ms_states = Range(States(df))
    /\ location_search = <<>>
    /\ select_all_locations = TRUE
    /\ ms_locations = Range(AllLocationsFull(df))
    /\ out = Script(df, argsort_ties, date_mode, date_range, select_all_states,
                    ms_states, location_search, select_all_locations, ms_locations)

Init == InitOn(Frames)

\* l.73-77; the date input is drawn in Custom range mode only and starts
\* from its default
SetDateMode(m) ==
    /\ m # date_mode
    /\ date_mode' = m
    /\ date_range' = DefaultDateRange(df)
    /\ UNCHANGED <<df, argsort_ties, select_all_states, ms_states, location_search,
                   select_all_locations, ms_locations>>
    /\ Rerun

\* l.81-84
SetDateRange(r) ==
    /\ date_mode = "Custom range"
    /\ r # date_range
    /\ date_range' = r
    /\ UNCHANGED <<df, argsort_ties, date_mode, select_all_states, ms_states,
                   location_search, select_all_locations, ms_locations>>
    /\ Rerun

\* l.113; the multiselect is drawn only while the box is off and starts
\* from default=states
ToggleSelectAllStates ==
    /\ select_all_states' = ~select_all_states
    /\ ms_states' = Range(States(df))
    /\ UNCHANGED <<df, argsort_ties, date_mode, date_range, location_search,
                   select_all_locations, ms_locations>>
    /\ Rerun

\* l.118
SetSelectedStates(picked) ==
    /\ ~select_all_states
    /\ picked # ms_states
    /\ ms_states' = picked
    /\ UNCHANGED <<df, argsort_ties, date_mode, date_range, select_all_states,
                   location_search, select_all_locations, ms_locations>>
    /\ Rerun

\* l.125; a multiselect whose options changed starts again from
\* default=location_options
SetLocationSearch(text) ==
    /\ text # location_search
    /\ location_search' = text
    /\ LET options == LocationOptions(AllLocationsFull(df), text)
       IN  ms_locations' = IF options = out.location_options
                           THEN ms_locations ELSE Range(options)
    /\ UNCHANGED <<df, argsort_ties, date_mode, date_range, select_all_states,
                   ms_states, select_all_locations>>
    /\ Rerun

\* l.135-137
ToggleSelectAllLocations ==
    /\ select_all_locations' = ~select_all_locations
    /\ ms_locations' = Range(out.location_options)
    /\ UNCHANGED <<df, argsort_ties, date_mode, date_range, select_all_states,
                   ms_states, location_search>>
    /\ Rerun

\* l.142-146
SetSelectedLocations(picked) ==
    /\ ~select_all_locations
    /\ picked # ms_locations
    /\ ms_locations' = picked
    /\ UNCHANGED <<df, argsort_ties, date_mode, date_range, select_all_states,
                   ms_states, location_search, select_all_locations>>
    /\ Rerun

Next ==
    \/ \E m \in DateModes : SetDateMode(m)
    \/ \E r \in DateInputs : SetDateRange(r)
    \/ ToggleSelectAllStates
    \/ \E picked \in SUBSET Range(out.states) : SetSelectedStates(picked)
    \/ \E text \in SearchTexts : SetLocationSearch(text)
    \/ ToggleSelectAllLocations
    \/ \E picked \in SUBSET Range(out.location_options) : SetSelectedLocations(picked)

Spec == Init /\ [][Next]_vars

\* the ranking specification: frames with more groups than a chart shows
InitRank == InitOn(RankFrames)

NextRank ==
    \/ \E m \in DateModes : SetDateMode(m)
    \/ ToggleSelectAllStates
    \/ \E text \in SearchTexts : SetLocationSearch(text)
    \/ ToggleSelectAllLocations

SpecRank == InitRank /\ [][NextRank]_vars

\* the date specification: frames of many date spans, the date widgets only
InitDates == InitOn(DateFrames)

NextDates ==
    \/ \E m \in DateModes : SetDateMode(m)
    \/ \E r \in DateInputs : SetDateRange(r)

SpecDates == InitDates /\ [][NextDates]_vars

-----------------------------------------------------------------------------
(* The claims                                                              *)

\* the run reached the end of the script
Completed == ~out.error

\* the rows of the loaded frame with Lead_Date in [lo, hi], in frame order
RowsBetween(lo, hi) ==
    SelectSeq(df, LAMBDA r : lo <= r.Lead_Date /\ r.Lead_Date <= hi)

LeadDates(frame) == {frame[i].Lead_Date : i \in DOMAIN frame}

\* C5: in a preset mode of n days (7, 30, 90) the resolved range ends on the
\* latest date of the data and starts n - 1 days earlier, but never before
\* the earliest date of the data; so min_date <= start_date <= end_date, and
\* a one-day data set resolves to that day.
C5_PresetRange ==
    date_mode # "Custom range" =>
        LET n == CASE date_mode = "Last 7 days" -> 7
                   [] date_mode = "Last 30 days" -> 30
                   [] date_mode = "Last 90 days" -> 90
            lo == MinOf(LeadDates(df))
            hi == MaxOf(LeadDates(df))
            back == hi - (n - 1)
            start == out.start_date.elems[1]
        IN  /\ out.end_date = DateVal(hi)
            /\ out.start_date = DateVal(IF back > lo THEN back ELSE lo)
            /\ lo <= start /\ start <= hi
            /\ (lo = hi => start = lo)

\* C5 witness: a preset whose window starts strictly inside the data
C5_Witness ==
    /\ date_mode = "Last 30 days"
    /\ out.start_date.elems[1] > out.min_date
    /\ out.end_date.elems[1] = out.max_date

\* C6: in Custom range mode a pair is taken as (start, end) unchanged; any
\* other value of the date input is one date d, and then start_date and
\* end_date are both d and the date filter keeps exactly the rows of day d.
C6_CustomRange ==
    date_mode = "Custom range" =>
        IF date_range.kind = "tuple" /\ Len(date_range.elems) = 2
        THEN /\ out.start_date = DateVal(date_range.elems[1])
             /\ out.end_date = DateVal(date_range.elems[2])
        ELSE LET d == date_range.elems[1]
             IN  /\ out.start_date = DateVal(d)
                 /\ out.end_date = DateVal(d)
                 /\ Completed
                 /\ out.date_filtered = RowsBetween(d, d)

\* C8: total_leads is the number of rows of the date-filtered frame,
\* num_dealers the number of its distinct dealers, avg_leads_per_day the
\* quotient of total_leads by (latest - earliest Lead_Date of those rows) + 1;
\* the empty frame gives 0, 0 and 0.
C8_Kpis ==
    Completed =>
        LET sub == out.date_filtered
            dealers == {sub[i].Dealer : i \in DOMAIN sub} \ {NaN}
        IN  /\ sub = RowsBetween(out.start_date.elems[1], out.end_date.elems[1])
            /\ out.total_leads = Len(sub)
            /\ out.num_dealers = Cardinality(dealers)
            /\ IF sub = <<>>
               THEN out.avg_leads_per_day = [num |-> 0, den |-> 1]
               ELSE out.avg_leads_per_day =
                        [num |-> Len(sub),
                         den |-> MaxOf(LeadDates(sub)) - MinOf(LeadDates(sub)) + 1]

\* C8 witness: rows that span fewer days than the requested range
C8_Witness ==
    /\ Completed
    /\ out.total_leads = 2
    /\ out.num_dealers = 1
    /\ out.avg_leads_per_day.den > 1
    /\ out.avg_leads_per_day.den
           < out.end_date.elems[1] - out.start_date.elems[1] + 1

\* C9: the weekly series has one entry per Week_Start of the date-filtered
\* frame, its count the number of rows of that week (so at least 1), in
\* strictly ascending order of Week_Start; other weeks have no entry.
C9_WeeklySeries ==
    (Completed /\ "week" \in out.charts) =>
        LET sub == out.date_filtered
            series == out.weekly_counts
        IN  /\ {series[p].key : p \in DOMAIN series}
                   = {sub[i].Week_Start : i \in DOMAIN sub}
            /\ \A p \in DOMAIN series :
                   /\ series[p].Leads >= 1
                   /\ series[p].Leads
                          = Cardinality({i \in DOMAIN sub :
                                            sub[i].Week_Start = series[p].key})
            /\ \A p, q \in DOMAIN series : p < q => series[p].key < series[q].key

\* C9 witness: two weeks with rows, the week between them without an entry
C9_Witness ==
    /\ Completed
    /\ Len(out.weekly_counts) = 2
    /\ out.weekly_counts[2].key - out.weekly_counts[1].key > 7

\* a location that is not missing and contains the search text, letter case
\* ignored
Matches(loc) == ~IsNa(loc) /\ Contains(Lower(location_search), Lower(loc))

\* the rows of the date-filtered frame whose location matches the search
MatchingSearch == SelectSeq(out.date_filtered, LAMBDA r : Matches(r.Location_clean))

\* C1 as stated: with its select-all box on, the state chart and the location
\* chart are each drawn from all rows of the date-filtered frame, whatever the
\* search text and the other inputs.
C1_SelectAllKeepsEveryRow ==
    Completed =>
        /\ select_all_states => out.state_df = out.date_filtered
        /\ select_all_locations => out.loc_df = out.date_filtered

\* C1 as amended: with "Select All States" on the state chart is drawn from
\* all rows of the date-filtered frame; with "Select All Locations" on the
\* location chart is drawn from the rows of the date-filtered frame whose
\* Location_clean is not missing and contains the search text (letter case
\* ignored), which is every row with a location when the search text is
\* empty.
C1_SelectAllKeepsSearchedRows ==
    Completed =>
        /\ select_all_states => out.state_df = out.date_filtered
        /\ select_all_locations => out.loc_df = MatchingSearch
        /\ (select_all_locations /\ location_search = <<>>) =>
               out.loc_df = SelectSeq(out.date_filtered,
                                      LAMBDA r : ~IsNa(r.Location_clean))

\* C1 witness: select-all locations with a search text that keeps some rows
\* and drops others
C1_Witness ==
    /\ Completed
    /\ select_all_locations
    /\ select_all_states
    /\ location_search # <<>>
    /\ out.loc_df # <<>>
    /\ out.loc_df # out.date_filtered
    /\ out.state_df = out.date_filtered

\* the run of the script with the same inputs but one select-all box on
WithAllStates ==
    Script(df, argsort_ties, date_mode, date_range, TRUE, ms_states,
           location_search, select_all_locations, ms_locations)
WithAllLocations ==
    Script(df, argsort_ties, date_mode, date_range, select_all_states, ms_states,
           location_search, TRUE, ms_locations)

\* C2: a view filtered on every value of its column (box off, all values of
\* the column picked) shows what it shows with the select-all box on: the
\* same rows, the same chart or message, the same ranking.
C2_AllIsExplicitFull ==
    Completed =>
        /\ (~select_all_states /\ ms_states = Range(States(df))) =>
               /\ out.state_df = WithAllStates.state_df
               /\ out.state_chart = WithAllStates.state_chart
               /\ out.charts = WithAllStates.charts
               /\ out.infos = WithAllStates.infos
        /\ (~select_all_locations /\ ms_locations = Range(AllLocationsFull(df))) =>
               /\ out.loc_df = WithAllLocations.loc_df
               /\ out.location_chart = WithAllLocations.location_chart
               /\ out.charts = WithAllLocations.charts
               /\ out.infos = WithAllLocations.infos

\* the state filter lets a row through
StatePasses(r) == select_all_states \/ r.State \in out.selected_states

\* the locations of the loaded frame that match the search
LocationsMatchingSearch ==
    {df[i].Location_clean : i \in {j \in DOMAIN df : Matches(df[j].Location_clean)}}

\* C3 as stated: every location offered by the picker, and every location
\* selected, occurs in a row whose STATE the state filter lets through; here
\* for the locations all of whose rows name a state that is deselected.
C3_LocationsFollowStates ==
    \A loc \in Range(out.location_options) \cup out.selected_locations :
        \E i \in DOMAIN df :
            /\ df[i].Location_clean = loc
            /\ IsNa(df[i].State) \/ StatePasses(df[i])

\* C3 as amended: the locations offered by the picker are the Location_clean
\* values of all rows of the loaded data that contain the search text,
\* whatever the state filter; the selected locations are among them; a
\* location that occurs only in rows of deselected states is still offered.
C3_LocationsIgnoreStates ==
    /\ Range(out.location_options) = LocationsMatchingSearch
    /\ out.selected_locations \subseteq LocationsMatchingSearch
    /\ \A p, q \in DOMAIN out.location_options :
           p < q => StrLess(out.location_options[p], out.location_options[q])

\* C3 witness: a location of a deselected state only, offered and selected
C3_Witness ==
    /\ Completed
    /\ ~select_all_states
    /\ \E loc \in out.selected_locations \cap Range(out.location_options) :
           /\ \A i \in DOMAIN df : df[i].Location_clean = loc => ~StatePasses(df[i])
           /\ \E i \in DOMAIN out.loc_df : out.loc_df[i].Location_clean = loc

\* C4 as stated: a view whose box is off and whose selection is empty has no
\* rows and shows its own message in place of its chart.
C4_EmptySelectionShowsOwnMessage ==
    Completed =>
        /\ (~select_all_states /\ ms_states = {}) =>
               /\ out.state_df = <<>>
               /\ "state" \notin out.charts
               /\ "no states" \in out.infos
        /\ (~select_all_locations /\ ms_locations = {}) =>
               /\ out.loc_df = <<>>
               /\ "location" \notin out.charts
               /\ "no locations" \in out.infos

\* C4 as amended: a view whose box is off and whose selection is empty has
\* no rows and shows no chart, for every data set and date range; it shows
\* its own message when the date-filtered frame has rows, and when that frame
\* is empty the page shows the message of the date range alone.
C4_EmptySelectionShowsNothing ==
    Completed =>
        /\ (~select_all_states /\ ms_states = {}) =>
               /\ out.state_df = <<>>
               /\ "state" \notin out.charts
               /\ out.state_chart = <<>>
               /\ ("no states" \in out.infos) = (out.date_filtered # <<>>)
        /\ (~select_all_locations /\ ms_locations = {}) =>
               /\ out.loc_df = <<>>
               /\ "location" \notin out.charts
               /\ out.location_chart = <<>>
               /\ ("no locations" \in out.infos) = (out.date_filtered # <<>>)
        /\ (out.date_filtered = <<>>) = (out.infos = {"no date range"})

\* C4 witness: both selections emptied over a date-filtered frame with rows
C4_Witness ==
    /\ Completed
    /\ ~select_all_states /\ ms_states = {}
    /\ ~select_all_locations /\ ms_locations = {}
    /\ out.date_filtered # <<>>
    /\ out.infos = {"no states", "no locations"}
    /\ out.charts = {"week", "dealer"}

\* the distinct values of a column of a frame, missing values left out
ValuesOf(frame, col) == {frame[i][col] : i \in DOMAIN frame} \ {NaN}

CountOf(frame, col, v) == Cardinality({i \in DOMAIN frame : frame[i][col] = v})

FirstRowOf(frame, col, v) == MinOf({i \in DOMAIN frame : frame[i][col] = v})

Smaller(a, b) == IF a < b THEN a ELSE b

\* chart ranks the values of column col of frame, at most limit of them:
\* distinct values with their row counts, counts never increasing, and no
\* value left out has more rows than one that is shown
IsRanking(chart, frame, col, limit) ==
    LET values == ValuesOf(frame, col)
        shown == {chart[p].key : p \in DOMAIN chart}
    IN  /\ Len(chart) = Smaller(limit, Cardinality(values))
        /\ shown \subseteq values
        /\ Cardinality(shown) = Len(chart)
        /\ \A p \in DOMAIN chart : chart[p].Leads = CountOf(frame, col, chart[p].key)
        /\ \A p \in DOMAIN chart :
               p < Len(chart) => chart[p].Leads >= chart[p + 1].Leads
        /\ \A v \in values \ shown :
               \A p \in DOMAIN chart : chart[p].Leads >= CountOf(frame, col, v)

\* entries of equal count stand in the order of their first rows in frame
TiesByFirstRow(chart, frame, col) ==
    \A p \in DOMAIN chart :
        (p < Len(chart) /\ chart[p].Leads = chart[p + 1].Leads) =>
            FirstRowOf(frame, col, chart[p].key)
                < FirstRowOf(frame, col, chart[p + 1].key)

\* C7 as stated: each chart ranks its frame (dealers: first 15, locations:
\* first 25, states: all) by count, never increasing, and entries of equal
\* count stand in the order in which their first rows occur in the frame.
C7_RankingTiesByFirstRow ==
    (Completed /\ out.date_filtered # <<>>) =>
        /\ IsRanking(out.dealer_chart, out.date_filtered, "Dealer", CHART_TOP_DEALERS)
        /\ TiesByFirstRow(out.dealer_chart, out.date_filtered, "Dealer")
        /\ IsRanking(out.location_chart, out.loc_df, "Location_clean",
                     CHART_TOP_LOCATIONS)
        /\ TiesByFirstRow(out.location_chart, out.loc_df, "Location_clean")
        /\ IsRanking(out.state_chart, out.state_df, "State", Len(out.state_df))
        /\ TiesByFirstRow(out.state_chart, out.state_df, "State")

\* C7 as amended: each chart (dealers: first 15, locations: first 25, states:
\* all) has one (value, count) entry per distinct value of its frame that is
\* not missing, in order of never increasing count, cut to the first K
\* entries where a limit K applies; the order of entries of equal count
\* is not fixed by the order of the rows.
C7_Ranking ==
    (Completed /\ out.date_filtered # <<>>) =>
        /\ IsRanking(out.dealer_chart, out.date_filtered, "Dealer", CHART_TOP_DEALERS)
        /\ IsRanking(out.location_chart, out.loc_df, "Location_clean",
                     CHART_TOP_LOCATIONS)
        /\ IsRanking(out.state_chart, out.state_df, "State", Len(out.state_df))

\* C7 witness: more dealers and locations than the charts show, with entries
\* of equal count that are not in the order of their first rows
C7_Witness ==
    /\ Completed
    /\ Cardinality(ValuesOf(out.date_filtered, "Dealer")) > CHART_TOP_DEALERS
    /\ Len(out.dealer_chart) = CHART_TOP_DEALERS
    /\ Cardinality(ValuesOf(out.loc_df, "Location_clean")) > CHART_TOP_LOCATIONS
    /\ Len(out.location_chart) = CHART_TOP_LOCATIONS
    /\ ~TiesByFirstRow(out.dealer_chart, out.date_filtered, "Dealer")
    /\ Len(out.state_chart) = 2

\* what the views that have no filter of their own show
GlobalViews ==
    <<out.date_filtered, out.total_leads, out.avg_leads_per_day, out.num_dealers,
      out.weekly_counts, out.dealer_chart>>
LocationView ==
    <<out.loc_df, out.location_chart, "location" \in out.charts,
      "no locations" \in out.infos>>
StateView ==
    <<out.state_df, out.state_chart, "state" \in out.charts, "no states" \in out.infos>>

IsSubframe(sub, frame) ==
    /\ Range(sub) \subseteq Range(frame)
    /\ Len(sub) <= Len(frame)

\* every view is drawn from rows of the date-filtered frame
ViewsWithinDateFilter ==
    Completed =>
        /\ out.date_filtered
               = RowsBetween(out.start_date.elems[1], out.end_date.elems[1])
        /\ IsSubframe(out.loc_df, out.date_filtered)
        /\ IsSubframe(out.state_df, out.date_filtered)
        /\ out.total_leads = Len(out.date_filtered)

\* a step that leaves the date inputs alone changes none of the KPIs, the
\* weekly series and the dealer chart; if it also leaves the location inputs
\* alone it does not change the location view, and if it leaves the state
\* inputs alone it does not change the state view
ScopedStep ==
    (date_mode' = date_mode /\ date_range' = date_range) =>
        /\ GlobalViews' = GlobalViews
        /\ (/\ location_search' = location_search
            /\ select_all_locations' = select_all_locations
            /\ ms_locations' = ms_locations) => LocationView' = LocationView
        /\ (/\ select_all_states' = select_all_states
            /\ ms_states' = ms_states) => StateView' = StateView

\* C10: the KPIs, the weekly series and the dealer chart depend on the data
\* and the date range only; the location view does not depend on the state
\* filter, nor the state view on the location filter and search text; and
\* every view is drawn from rows of the date-filtered frame.
C10_FilterScoping == [](ViewsWithinDateFilter) /\ [][ScopedStep]_vars

\* C10 witness: both filters narrowed, each view narrowed by its own only
C10_Witness ==
    /\ Completed
    /\ ~select_all_states /\ ~select_all_locations
    /\ Len(out.date_filtered) = 2
    /\ Len(out.state_df) = 1
    /\ Len(out.loc_df) = 1
    /\ out.state_df # out.loc_df
    /\ out.total_leads = 2

====
